---- MODULE Spec2Model ----
(***************************************************************************)
(* Frame-playback engine of the sprite animation viewer                    *)
(* (src/src/components/AnimationViewer.tsx, component AnimationViewer, and *)
(* the Controls component that drives it).                                 *)
(*                                                                         *)
(* The model follows the React component: the useState cells are           *)
(* variables, the refs are variables, every event handler and the          *)
(* requestAnimationFrame callback `animate` is one action.  A handler and  *)
(* the effect re-run its state change triggers form one atomic step.       *)
(*                                                                         *)
(* Time is counted in units of TimeUnit milliseconds; `now` is the         *)
(* timestamp the next animation-frame callback would receive.              *)
(*                                                                         *)
(* The load is the coroutine initPixi: one action per stretch between two  *)
(* awaits, so that a reset can fall between them.  Spec and its variants   *)
(* start with the viewer open and take the rest of the load in one step;   *)
(* SpecLoad starts on the landing page and follows the load await by       *)
(* await; SpecSort selects files under every name order.                   *)
(***************************************************************************)
EXTENDS Integers, Sequences, FiniteSets, TLC

\* ------------------------------------------------------------------ bounds
MaxFrames == 3
MaxTime == 5
TimeUnit == 50
\* time after which the user leaves the viewer alone (SpecAuto)
SetupTime == 1
\* runs of the init effect's cleanup in one behaviour (SpecTeardownTwice)
MaxTeardowns == 2
\* error notifications in one behaviour
MaxToasts == 2

\* ------------------------------------------------------- program constants
\* useState(24)
InitialFps == 24
\* milliseconds per second in `1000 / fps`
MsPerSecond == 1000

\* Values the frame-rate control can deliver: two of FPS_PRESETS and two
\* values typed in the number field, whose onChange passes Number(value) on
\* unchecked.
FpsChoices == {-5, 0, 10, 24}

VARIABLES
    files,          \* Index selectedFiles: the names, in the order supplied
    sortedFiles,    \* the viewer's sortedFiles (names)
    totalFrames,    \* sortedFiles.length
    mounted,        \* selectedFiles is set: the viewer is shown and
                    \* canvasRef.current is its container
    currentFrame,   \* useState(0)
    isPlaying,      \* useState(false)
    loop,           \* useState(true)
    fps,            \* useState(24)
    interpolate,    \* useState(false)
    lastTime,       \* lastTimeRef.current, in time units; 0 is "unset"
    spriteReady,    \* spriteRef.current set and texturesRef.current non-empty
    rafPending,     \* an `animate` callback is scheduled
    animate,        \* the render values `animate` closes over
    now,            \* timestamp of the next animation frame, in time units
    spriteAlpha,    \* spriteRef.current.alpha, in 1/MsPerSecond
    spriteTexture,  \* index in texturesRef of spriteRef.current.texture
    nextTexture,    \* index in texturesRef of nextSpriteRef.current.texture
    nextAlpha,      \* nextSpriteRef.current.alpha, in 1/MsPerSecond
    nextVisible,    \* nextSpriteRef.current.visible
    hasInitialized, \* hasInitializedRef.current
    pc,             \* position of the initPixi coroutine: "none", "appInit"
                    \* (awaiting app.init), "decode" (awaiting image idx),
                    \* and where it ended: "ready", "empty", "returned",
                    \* "threw"
    idx,            \* 1-based position in sortedFiles of the awaited image
    app,            \* the Application made by initPixi: "none", "live",
                    \* "destroyed"
    appRefSet,      \* appRef.current is that Application
    locTextures,    \* initPixi's local `textures`: positions in sortedFiles
    locUrls,        \* length of initPixi's local `blobUrls`
    refTextures,    \* texturesRef.current
    refUrls,        \* length of blobUrlsRef.current
    liveTextures,   \* observation: textures created and not destroyed
    liveUrls,       \* observation: blob URLs created and not revoked
    destroyCalls,   \* observation: calls of destroy on the Application
    errToasts,      \* observation: toast.error calls
    teardowns,      \* observation: runs of the init effect's cleanup
    tornDownAt,     \* observation: pc when the cleanup first ran, or "never"
    selection,      \* observation: the manifest's image and the files of the
                    \* last processFiles call, and the file it resolved to
    pc2,            \* a second initPixi, started by a re-run of the init
                    \* effect: "none", "appInit", "decode" (canvas attached,
                    \* images loading), "ready"
    ev,             \* observation: the last handler that ran and its input
    armedAt,        \* observation: the timestamp the specified clock measures
                    \* from: the first tick after play or a seek, the time of
                    \* a frame-rate change, the tick of the last advance
    resetBy         \* observation: what last reset the specified clock

\* The initPixi coroutine and the refs it fills.
loader == <<hasInitialized, pc, idx, app, appRefSet, locTextures, locUrls,
            refTextures, refUrls>>

\* Resource and notification accounting.
ledger == <<liveTextures, liveUrls, destroyCalls, errToasts, teardowns,
            tornDownAt, selection, pc2>>

\* The base sprite and the overlay sprite.
sprites == <<spriteAlpha, spriteTexture, nextTexture, nextAlpha, nextVisible>>

\* What the playback handlers never touch.
store == <<files, sortedFiles, totalFrames, mounted, loader, ledger>>

vars == <<files, sortedFiles, totalFrames, mounted, currentFrame, isPlaying,
          loop, fps, interpolate, lastTime, spriteReady, rafPending, animate, now,
          sprites, loader, ledger, ev, armedAt, resetBy>>

playback == <<currentFrame, isPlaying, loop, fps, interpolate>>

\* ------------------------------------------------------------ observation
\* op: handler name; arg: its input (seek target, fps value, tick timestamp,
\* index before a step); adv: the tick took the advance branch; el: the
\* tick's `elapsed`, for a seek or a key step the time it was made at; rep:
\* the handler repeats the previous one, same input.
Ev(op, arg, adv, el, rep) ==
    [op |-> op, arg |-> arg, adv |-> adv, el |-> el, rep |-> rep]

\* "not armed": the next tick establishes the timestamp.
Unarmed == 0 - 1

\* ---------------------------------------------------------- pure helpers
\* `elapsed >= frameDuration` with frameDuration = 1000 / fps computed in
\* floating point: +Infinity for fps = 0, negative for fps < 0.
AdvanceDue(elapsedMs, f) ==
    IF f > 0 THEN elapsedMs * f >= MsPerSecond
    ELSE IF f = 0 THEN FALSE
    ELSE elapsedMs * f <= MsPerSecond

\* The timestamp an advance would leave were one frameDuration (in whole
\* time units) subtracted from the accumulated time.
ClockCarriedOver(t, lt, f) ==
    IF f > 0 THEN lt + MsPerSecond \div (f * TimeUnit) ELSE t

\* lastTimeRef.current = currentTime in the advance branch of `animate`.
ClockAfterAdvance(t, lt, f) == t

AdvanceFrameAlwaysWrap(prev, total, lp) ==
    IF prev + 1 >= total
    THEN [frame |-> 0, playing |-> TRUE]
    ELSE [frame |-> prev + 1, playing |-> TRUE]

\* The updater passed to setCurrentFrame by `animate`; playing = FALSE
\* stands for its call of setIsPlaying(false).
AdvanceFrame(prev, total, lp) ==
    IF prev + 1 >= total
    THEN IF lp THEN [frame |-> 0, playing |-> TRUE]
               ELSE [frame |-> prev, playing |-> FALSE]
    ELSE [frame |-> prev + 1, playing |-> TRUE]

StepForwardNoWrap(prev, total) == prev + 1

\* ArrowRight updater
StepForward(prev, total) == IF prev < total - 1 THEN prev + 1 ELSE 0

StepBackwardNoWrap(prev, total) == IF prev > 0 THEN prev - 1 ELSE 0

\* ArrowLeft updater
StepBackward(prev, total) == IF prev > 0 THEN prev - 1 ELSE total - 1

\* The animation effect's guard: it schedules `animate` only when playing
\* with a sprite and at least one texture.
EffectSchedules(playing) == playing /\ spriteReady

\* What the `animate` callback of one run of the animation effect closes
\* over: fps (as frameDuration), loop and interpolate of that render.
Closure(f, l, i) == [fps |-> f, loop |-> l, interpolate |-> i]

\* -------------------------------------------------------------- sprites
\* alpha = 1
Opaque == MsPerSecond

\* `progress > 0.01`, alpha being counted in 1/MsPerSecond
VisibleAbove == MsPerSecond \div 100

\* a sprite texture that is no entry of texturesRef: none assigned yet, or
\* `undefined` assigned
NoTexture == 0 - 1

\* texturesRef.current[i] is a texture
HasTexture(i) == i + 1 \in DOMAIN refTextures

\* what sprite.texture = texturesRef.current[i] leaves in the sprite
TextureAt(i) == IF HasTexture(i) THEN i ELSE NoTexture

\* Math.min(elapsed / frameDuration, 1) in 1/MsPerSecond
Progress(elapsedMs, f) ==
    IF elapsedMs * f < MsPerSecond THEN elapsedMs * f ELSE MsPerSecond

\* The frame change effect, deps [currentFrame, interpolate, totalFrames],
\* after a handler that leaves the overlay at alphaIn: it runs when a
\* dependency has changed, and acts only with a sprite and a texture at the
\* new index cf.  It sets both textures and zeroes the overlay's alpha; it
\* does not touch the overlay's `visible`.
FrameChangeEffect(cf, interp, alphaIn) ==
    IF (cf # currentFrame \/ interp # interpolate)
       /\ spriteReady /\ HasTexture(cf)
    THEN /\ spriteTexture' = cf
         /\ nextTexture' = IF interp THEN TextureAt((cf + 1) % totalFrames)
                                     ELSE nextTexture
         /\ nextAlpha' = 0
    ELSE /\ UNCHANGED <<spriteTexture, nextTexture>>
         /\ nextAlpha' = alphaIn

\* ------------------------------------------------------------ file names
\* A file name is a sequence of character codes: "." = 46, "0".."9" =
\* 48..57, "a" = 97, "f" = 102.  The names are f1. f2. f10. a. f3. a2.
NameList ==
    << <<102, 49, 46>>, <<102, 50, 46>>, <<102, 49, 48, 46>>, <<97, 46>>,
       <<102, 51, 46>>, <<97, 50, 46>> >>

Names == {NameList[i] : i \in 1..Len(NameList)}

\* The lists of distinct names a selection can deliver, in any order.
FileLists ==
    UNION {{fs \in [1..n -> Names] :
               \A i, j \in 1..n : i # j => fs[i] # fs[j]} : n \in 1..MaxFrames}

Sign(d) == IF d < 0 THEN 0 - 1 ELSE IF d > 0 THEN 1 ELSE 0

\* a.localeCompare(b) without options, for names of lower-case letters,
\* digits and dots: the collation orders them as their codes do, character
\* by character, a proper prefix first.
LocaleCompare(a, b) ==
    LET n == IF Len(a) < Len(b) THEN Len(a) ELSE Len(b)
        d == {i \in 1..n : a[i] # b[i]}
    IN  IF d = {} THEN Sign(Len(a) - Len(b))
        ELSE LET i == CHOOSE k \in d : \A m \in d : k <= m
             IN  Sign(a[i] - b[i])

\* Array.prototype.sort with the comparator localeCompare, as a stable
\* insertion sort: each element goes behind the last one that does not
\* compare greater.
InsertFile(t, x) ==
    LET ok == {j \in 0..Len(t) :
                  \A i \in (j + 1)..Len(t) : LocaleCompare(t[i], x) > 0}
        pos == CHOOSE j \in ok : \A m \in ok : j <= m
    IN  SubSeq(t, 1, pos) \o <<x>> \o SubSeq(t, pos + 1, Len(t))

\* [...files].sort((a, b) => a.name.localeCompare(b.name))
SortFiles(fs) ==
    LET f[k \in 0..Len(fs)] ==
            IF k = 0 THEN <<>> ELSE InsertFile(f[k - 1], fs[k])
    IN  f[Len(fs)]

\* ------------------------------------------------------------------ Init
\* A fresh AnimationViewer for the selection fs after its first render and
\* effects: initPixi has created the Application and awaits app.init.
ViewerOpened(fs) ==
    /\ files = fs
    /\ sortedFiles = SortFiles(fs)
    /\ totalFrames = Len(fs)
    /\ mounted = TRUE
    /\ currentFrame = 0
    /\ isPlaying = FALSE
    /\ loop = TRUE
    /\ fps = InitialFps
    /\ interpolate = FALSE
    /\ lastTime = 0
    /\ spriteReady = FALSE
    /\ rafPending = FALSE
    /\ animate = Closure(InitialFps, TRUE, FALSE)
    /\ spriteAlpha = Opaque
    /\ spriteTexture = NoTexture
    /\ nextTexture = NoTexture
    /\ nextAlpha = 0
    /\ nextVisible = FALSE
    /\ hasInitialized = TRUE
    /\ pc = "appInit"
    /\ idx = 0
    /\ app = "live"
    /\ appRefSet = FALSE
    /\ locTextures = <<>>
    /\ locUrls = 0
    /\ refTextures = <<>>
    /\ refUrls = 0

LedgerInit ==
    /\ liveTextures = {}
    /\ liveUrls = 0
    /\ destroyCalls = 0
    /\ errToasts = 0
    /\ teardowns = 0
    /\ tornDownAt = "never"
    /\ selection = [image |-> [stem |-> 0, ext |-> "", name |-> <<>>],
                    supplied |-> <<>>, found |-> 0]
    /\ pc2 = "none"
    /\ now = 0
    /\ ev = Ev("init", 0, FALSE, 0, FALSE)
    /\ armedAt = Unarmed
    /\ resetBy = "none"

\* The viewer opened on 1..MaxFrames files.
Init ==
    /\ \E n \in 1..MaxFrames : ViewerOpened(SubSeq(NameList, 1, n))
    /\ LedgerInit

\* --------------------------------------------------------------- actions
\* The rest of initPixi in one step, every file decoding: the Application
\* is attached, a blob URL and a texture are made per file, the refs are
\* filled and the sprites created.  Refs do not re-render, so the
\* animation effect is not re-run.  The handlers read of all this only
\* spriteRef and texturesRef, which initPixi fills in its last synchronous
\* stretch.
LoadDone ==
    /\ mounted
    /\ pc = "appInit"
    /\ pc' = "ready"
    /\ idx' = totalFrames
    /\ appRefSet' = TRUE
    /\ locTextures' = [i \in 1..totalFrames |-> i]
    /\ refTextures' = [i \in 1..totalFrames |-> i]
    /\ locUrls' = totalFrames
    /\ refUrls' = totalFrames
    /\ liveTextures' = 1..totalFrames
    /\ liveUrls' = totalFrames
    /\ spriteReady' = TRUE
    /\ spriteAlpha' = Opaque
    /\ spriteTexture' = 0
    /\ nextTexture' = 0
    /\ nextAlpha' = 0
    /\ nextVisible' = FALSE
    /\ ev' = Ev("loaded", 0, FALSE, 0, FALSE)
    /\ UNCHANGED <<files, sortedFiles, totalFrames, mounted, playback,
                   lastTime, rafPending, animate, now, hasInitialized, app,
                   destroyCalls, errToasts, teardowns, tornDownAt, selection, pc2,
                   armedAt, resetBy>>

\* Index with selectedFiles = null: the landing page, no viewer.
InitLanding ==
    /\ files = <<>>
    /\ sortedFiles = <<>>
    /\ totalFrames = 0
    /\ mounted = FALSE
    /\ currentFrame = 0
    /\ isPlaying = FALSE
    /\ loop = TRUE
    /\ fps = InitialFps
    /\ interpolate = FALSE
    /\ lastTime = 0
    /\ spriteReady = FALSE
    /\ rafPending = FALSE
    /\ animate = Closure(InitialFps, TRUE, FALSE)
    /\ spriteAlpha = Opaque
    /\ spriteTexture = NoTexture
    /\ nextTexture = NoTexture
    /\ nextAlpha = 0
    /\ nextVisible = FALSE
    /\ hasInitialized = FALSE
    /\ pc = "none"
    /\ idx = 0
    /\ app = "none"
    /\ appRefSet = FALSE
    /\ locTextures = <<>>
    /\ locUrls = 0
    /\ refTextures = <<>>
    /\ refUrls = 0
    /\ LedgerInit

\* onFolderSelect(fs) = Index.handleFolderSelect: the viewer is rendered
\* and its init effect starts initPixi.  One selection per behaviour.
SelectFiles(fs) ==
    /\ ~mounted
    /\ pc = "none"
    /\ files' = fs
    /\ sortedFiles' = SortFiles(fs)
    /\ totalFrames' = Len(fs)
    /\ mounted' = TRUE
    /\ hasInitialized' = TRUE
    /\ pc' = "appInit"
    /\ app' = "live"
    /\ ev' = Ev("select", Len(fs), FALSE, 0, FALSE)
    /\ UNCHANGED <<playback, lastTime, spriteReady, rafPending, animate, now, idx,
                   appRefSet, locTextures, locUrls, refTextures, refUrls,
                   ledger, armedAt, resetBy>>
    /\ UNCHANGED sprites

SelectAnyFiles == \E fs \in FileLists : SelectFiles(fs)

Range(s) == {s[i] : i \in 1..Len(s)}

\* The cleanup of the init effect, together with the animation effect's
\* cleanup: the scheduled callback is cancelled, the Application in appRef
\* destroyed (appRef keeps referring to it), the textures in texturesRef
\* destroyed and the blob URLs in blobUrlsRef revoked, both refs emptied.
Cleanup ==
    /\ hasInitialized' = FALSE
    /\ rafPending' = FALSE
    /\ UNCHANGED animate
    /\ IF appRefSet
       THEN app' = "destroyed" /\ destroyCalls' = destroyCalls + 1
       ELSE UNCHANGED <<app, destroyCalls>>
    /\ liveTextures' = liveTextures \ Range(refTextures)
    /\ refTextures' = <<>>
    /\ liveUrls' = liveUrls - refUrls
    /\ refUrls' = 0
    /\ teardowns' = teardowns + 1
    /\ tornDownAt' = IF tornDownAt = "never" THEN pc ELSE tornDownAt

\* R key / Back button: onBack() = Index.handleBack sets selectedFiles to
\* null; the viewer unmounts, canvasRef.current becomes null and the
\* effect cleanups run.
Reset ==
    /\ mounted
    /\ mounted' = FALSE
    /\ Cleanup
    /\ ev' = Ev("reset", 0, FALSE, 0, FALSE)
    /\ UNCHANGED <<files, sortedFiles, totalFrames, playback, lastTime,
                   spriteReady, now, pc, idx, appRefSet, locTextures,
                   locUrls, errToasts, selection, pc2, armedAt, resetBy>>
    /\ UNCHANGED sprites

\* The first n names: the files of a selection when their names do not
\* matter.
FirstNames(n) == SubSeq(NameList, 1, n)

SelectSomeFiles == \E n \in 1..MaxFrames : SelectFiles(FirstNames(n))

\* extractFramesFromAtlas over n manifest frames, `bad` being the frames
\* whose cropping throws: the loop has no handler of its own, so the first
\* throw leaves through the function's catch, which rethrows.
ExtractFramesFromAtlas(n, bad) ==
    IF bad = {} THEN [threw |-> FALSE, files |-> FirstNames(n)]
                ELSE [threw |-> TRUE, files |-> <<>>]

\* processFiles once the atlas file is found.  The observation records
\* the number of manifest frames, whether the viewer was opened, and the
\* number of frames whose cropping does not throw.
ExtractAndOpen ==
    /\ ~mounted
    /\ pc = "none"
    /\ \E n \in 1..MaxFrames : \E bad \in SUBSET (1..n) :
          LET r == ExtractFramesFromAtlas(n, bad)
          IN  IF r.threw
              THEN /\ errToasts < MaxToasts
                   /\ errToasts' = errToasts + 1
                   /\ ev' = Ev("atlas", n, FALSE, n - Cardinality(bad),
                               FALSE)
                   /\ UNCHANGED <<files, sortedFiles, totalFrames, mounted,
                                  hasInitialized, pc, app>>
              ELSE /\ files' = r.files
                   /\ sortedFiles' = SortFiles(r.files)
                   /\ totalFrames' = Len(r.files)
                   /\ mounted' = TRUE
                   /\ hasInitialized' = TRUE
                   /\ pc' = "appInit"
                   /\ app' = "live"
                   /\ ev' = Ev("atlas", n, TRUE, n, FALSE)
                   /\ UNCHANGED errToasts
    /\ UNCHANGED <<playback, lastTime, spriteReady, rafPending, animate, now, idx,
                   appRefSet, locTextures, locUrls, refTextures, refUrls,
                   liveTextures, liveUrls, destroyCalls, teardowns,
                   tornDownAt, armedAt, resetBy>>
    /\ UNCHANGED sprites

\* processFiles with a manifest and its atlas.
SelectAtlas == ExtractAndOpen /\ UNCHANGED <<selection, pc2>>

\* ------------------------------------------------------ atlas resolution
\* Files a selection may hold beside the manifest, each with what it is
\* (stem: which base name, letter case aside; ext: its extension, lower
\* case) and its name as character codes: s.png s.PNG S.webp s.gif t.png.
AtlasPool ==
    { [stem |-> 1, ext |-> "png",  name |-> <<115, 46, 112, 110, 103>>],
      [stem |-> 1, ext |-> "png",  name |-> <<115, 46, 80, 78, 71>>],
      [stem |-> 1, ext |-> "webp", name |-> <<83, 46, 119, 101, 98, 112>>],
      [stem |-> 1, ext |-> "gif",  name |-> <<115, 46, 103, 105, 102>>],
      [stem |-> 2, ext |-> "png",  name |-> <<116, 46, 112, 110, 103>>] }

\* The manifest itself, s.json.
ManifestFile ==
    [stem |-> 1, ext |-> "json", name |-> <<115, 46, 106, 115, 111, 110>>]

\* The extensions of the pattern /\.(png|webp|ktx2|jpg|jpeg)$/ with their
\* dot: .png .webp .ktx2 .jpg .jpeg
AtlasExtensions ==
    { <<46, 112, 110, 103>>, <<46, 119, 101, 98, 112>>,
      <<46, 107, 116, 120, 50>>, <<46, 106, 112, 103>>,
      <<46, 106, 112, 101, 103>> }

SupportedExt == {"png", "webp", "ktx2", "jpg", "jpeg"}

\* The most files a selection holds beside the manifest.
MaxSupplied == 2

\* The selections: the manifest and 1..MaxSupplied distinct other files
\* in any order.
Supplied ==
    LET others == UNION {{fs \in [1..n -> AtlasPool] :
                            \A i, j \in 1..n : i # j => fs[i] # fs[j]}
                         : n \in 1..MaxSupplied}
    IN  {<<ManifestFile>> \o fs : fs \in others}

\* String.prototype.toLowerCase on "A".."Z" (65..90).
ToLowerCase(name) ==
    [i \in DOMAIN name |->
        IF name[i] \in 65..90 THEN name[i] + 32 ELSE name[i]]

EndsWith(name, suffix) ==
    /\ Len(name) >= Len(suffix)
    /\ SubSeq(name, Len(name) - Len(suffix) + 1, Len(name)) = suffix

\* name.replace(/\.(png|webp|ktx2|jpg|jpeg)$/, ''): at most one of the
\* extensions ends the name.
StripExtension(name) ==
    IF \E x \in AtlasExtensions : EndsWith(name, x)
    THEN LET x == CHOOSE y \in AtlasExtensions : EndsWith(name, y)
         IN  SubSeq(name, 1, Len(name) - Len(x))
    ELSE name

\* Names equal as they are.
AtlasMatchesExactly(fileName, image) == fileName = image

\* The predicate of files.find in processFiles.
AtlasMatches(fileName, image) ==
    LET atlasFileName == ToLowerCase(image)
        atlasBaseName == StripExtension(atlasFileName)
        lower == ToLowerCase(fileName)
    IN  \/ lower = atlasFileName
        \/ StripExtension(lower) = atlasBaseName

\* files.find(...): the position of the first match, 0 for undefined.
FindAtlas(fs, image) ==
    IF \E i \in 1..Len(fs) : AtlasMatches(fs[i].name, image)
    THEN CHOOSE i \in 1..Len(fs) :
            /\ AtlasMatches(fs[i].name, image)
            /\ \A j \in 1..(i - 1) : ~AtlasMatches(fs[j].name, image)
    ELSE 0

\* The atlas is missing and processFiles goes on to the regular image
\* files of the selection.
AtlasNotFoundFallThrough ==
    \E n \in 1..MaxFrames :
       /\ files' = FirstNames(n)
       /\ sortedFiles' = SortFiles(FirstNames(n))
       /\ totalFrames' = n
       /\ mounted' = TRUE
       /\ hasInitialized' = TRUE
       /\ pc' = "appInit"
       /\ app' = "live"
       /\ ev' = Ev("atlasMissing", 0, FALSE, 0, FALSE)
       /\ UNCHANGED <<playback, lastTime, spriteReady, rafPending, animate,
                      now, idx, appRefSet, locTextures, locUrls,
                      refTextures, refUrls, liveTextures, liveUrls,
                      destroyCalls, errToasts, teardowns, tornDownAt,
                      armedAt, resetBy>>
       /\ UNCHANGED sprites

\* The else branch of `if (atlasFile)`: toast.error and return.
AtlasNotFound ==
    /\ errToasts < MaxToasts
    /\ errToasts' = errToasts + 1
    /\ ev' = Ev("atlasMissing", 0, FALSE, 0, FALSE)
    /\ UNCHANGED <<files, sortedFiles, totalFrames, mounted, playback,
                   lastTime, spriteReady, rafPending, animate, now, loader,
                   liveTextures, liveUrls, destroyCalls, teardowns,
                   tornDownAt, armedAt, resetBy>>
    /\ UNCHANGED sprites

\* processFiles on a selection holding a manifest whose meta.image is the
\* name of `image`, made on the fresh landing page or after an attempt
\* that found no atlas.
ProcessManifest ==
    /\ ~mounted
    /\ pc = "none"
    /\ ev.op \in {"init", "atlasMissing"}
    /\ \E image \in AtlasPool : \E fs \in Supplied :
          LET found == FindAtlas(fs, image.name)
          IN  /\ selection' =
                    [image |-> image, supplied |-> fs, found |-> found]
              /\ IF found # 0 THEN ExtractAndOpen ELSE AtlasNotFound
    /\ UNCHANGED pc2

\* app.init has resolved.  With the container gone initPixi returns;
\* otherwise it attaches the canvas, sets appRef, and enters the loop: it
\* creates the blob URL of the first file and awaits its image.  Over no
\* files the loop is passed at once, the refs are filled with the empty
\* lists and "Failed to load any frames" is reported.
AppInitDone ==
    /\ pc = "appInit"
    /\ IF ~mounted
       THEN /\ pc' = "returned"
            /\ UNCHANGED <<idx, appRefSet, locUrls, liveUrls>>
            /\ UNCHANGED errToasts
       ELSE IF totalFrames = 0
       THEN /\ pc' = "empty"
            /\ appRefSet' = TRUE
            /\ errToasts' = errToasts + 1
            /\ UNCHANGED <<idx, locUrls, liveUrls>>
       ELSE /\ pc' = "decode"
            /\ appRefSet' = TRUE
            /\ idx' = 1
            /\ locUrls' = 1
            /\ liveUrls' = liveUrls + 1
            /\ UNCHANGED errToasts
    /\ ev' = Ev("appInit", 0, FALSE, 0, FALSE)
    /\ UNCHANGED <<files, sortedFiles, totalFrames, mounted, playback,
                   lastTime, spriteReady, rafPending, animate, now, hasInitialized,
                   app, locTextures, refTextures, refUrls, liveTextures,
                   destroyCalls, teardowns, tornDownAt, selection, pc2,
                   armedAt, resetBy>>
    /\ UNCHANGED sprites

\* The awaited image has loaded (ok) or failed.  A loaded image becomes a
\* texture, a failed one is logged and skipped.  Then the loop goes on to
\* the next file, or, after the last one, initPixi fills texturesRef and
\* blobUrlsRef and creates the sprites, or reports that nothing loaded.
\* Creating the sprites reads app.screen: on a destroyed Application that
\* may throw, which initPixi's catch reports.
ImageSettled(ok) ==
    /\ pc = "decode"
    /\ LET textures == IF ok THEN Append(locTextures, idx) ELSE locTextures
       IN  /\ locTextures' = textures
           /\ liveTextures' = IF ok THEN liveTextures \cup {idx}
                                    ELSE liveTextures
           /\ IF idx < totalFrames
              THEN /\ idx' = idx + 1
                   /\ locUrls' = locUrls + 1
                   /\ liveUrls' = liveUrls + 1
                   /\ UNCHANGED <<pc, refTextures, refUrls, spriteReady,
                                  errToasts, sprites>>
              ELSE /\ refTextures' = textures
                   /\ refUrls' = locUrls
                   /\ UNCHANGED <<idx, locUrls, liveUrls>>
                   /\ IF Len(textures) = 0
                      THEN /\ pc' = "empty"
                           /\ errToasts' = errToasts + 1
                           /\ UNCHANGED <<spriteReady, sprites>>
                      ELSE \/ /\ pc' = "ready"
                              /\ spriteReady' = TRUE
                              /\ spriteTexture' = 0
                              /\ nextTexture' = 0
                              /\ nextAlpha' = 0
                              /\ nextVisible' = FALSE
                              /\ UNCHANGED <<errToasts, spriteAlpha>>
                           \/ /\ app = "destroyed"
                              /\ pc' = "threw"
                              /\ errToasts' = errToasts + 1
                              /\ UNCHANGED <<spriteReady, sprites>>
    /\ ev' = Ev("decode", idx, ok, 0, FALSE)
    /\ UNCHANGED <<files, sortedFiles, totalFrames, mounted, playback,
                   lastTime, rafPending, animate, now, hasInitialized, app,
                   appRefSet, destroyCalls, teardowns, tornDownAt, selection, pc2,
                   armedAt, resetBy>>

\* The init effect's cleanup run once more after the viewer is gone.
TeardownAgain ==
    /\ ~mounted
    /\ teardowns >= 1
    /\ teardowns < MaxTeardowns
    /\ Cleanup
    /\ ev' = Ev("teardown", teardowns, FALSE, 0, FALSE)
    /\ UNCHANGED <<files, sortedFiles, totalFrames, mounted, playback,
                   lastTime, spriteReady, now, pc, idx, appRefSet,
                   locTextures, locUrls, errToasts, selection, pc2, armedAt,
                   resetBy>>
    /\ UNCHANGED sprites

\* Time passes without an animation-frame callback being run.
Elapse ==
    /\ now < MaxTime
    /\ now' = now + 1
    /\ UNCHANGED <<store, sprites, playback, lastTime, spriteReady, rafPending, animate,
                   ev, armedAt, resetBy>>

TogglePlayRewind ==
    /\ mounted
    /\ isPlaying' = ~isPlaying
    /\ currentFrame' = 0
    /\ rafPending' = EffectSchedules(~isPlaying)
    /\ UNCHANGED animate
    /\ ev' = Ev("playPause", IF isPlaying THEN 1 ELSE 0, FALSE, 0,
                ev.op = "playPause")
    /\ IF ~isPlaying
       THEN armedAt' = Unarmed /\ resetBy' = "play"
       ELSE UNCHANGED <<armedAt, resetBy>>
    /\ UNCHANGED <<store, spriteAlpha, nextVisible, loop, fps, interpolate,
                   lastTime, spriteReady, now>>
    /\ FrameChangeEffect(0, interpolate, nextAlpha)

\* Space key / play-pause button.  The observation's arg is isPlaying
\* before the toggle (1 = playing).
TogglePlay ==
    /\ mounted
    /\ isPlaying' = ~isPlaying
    /\ rafPending' = EffectSchedules(~isPlaying)
    /\ UNCHANGED animate
    /\ ev' = Ev("playPause", IF isPlaying THEN 1 ELSE 0, FALSE, 0,
                ev.op = "playPause")
    /\ IF ~isPlaying
       THEN armedAt' = Unarmed /\ resetBy' = "play"
       ELSE UNCHANGED <<armedAt, resetBy>>
    /\ UNCHANGED <<store, sprites, currentFrame, loop, fps, interpolate,
                   lastTime, spriteReady, now>>

SetLoopResetClock ==
    /\ mounted
    /\ loop' = ~loop
    /\ lastTime' = 0
    /\ rafPending' = EffectSchedules(isPlaying)
    /\ animate' = Closure(fps, ~loop, interpolate)
    /\ ev' = Ev("setLoop", IF loop THEN 1 ELSE 0, FALSE, 0, FALSE)
    /\ UNCHANGED <<store, sprites, currentFrame, isPlaying, fps, interpolate,
                   spriteReady, now, armedAt, resetBy>>

\* Loop checkbox: setLoop; `loop` is a dependency of the animation effect,
\* which is re-run.  The observation's arg is loop before the change.
SetLoop ==
    /\ mounted
    /\ loop' = ~loop
    /\ rafPending' = EffectSchedules(isPlaying)
    /\ animate' = Closure(fps, ~loop, interpolate)
    /\ ev' = Ev("setLoop", IF loop THEN 1 ELSE 0, FALSE, 0, FALSE)
    /\ UNCHANGED <<store, sprites, currentFrame, isPlaying, fps, interpolate,
                   lastTime, spriteReady, now, armedAt, resetBy>>

\* Interpolate checkbox (disabled when totalFrames <= 1).
SetInterpolate ==
    /\ mounted
    /\ totalFrames > 1
    /\ interpolate' = ~interpolate
    /\ rafPending' = EffectSchedules(isPlaying)
    /\ animate' = Closure(fps, loop, ~interpolate)
    /\ ev' = Ev("setInterpolate", IF interpolate THEN 1 ELSE 0, FALSE, 0,
                FALSE)
    /\ UNCHANGED <<store, spriteAlpha, nextVisible, currentFrame, isPlaying, loop, fps,
                   lastTime, spriteReady, now, armedAt, resetBy>>
    /\ FrameChangeEffect(currentFrame, ~interpolate, nextAlpha)

\* setFps as it would act were fps no dependency of the animation effect:
\* the scheduled callback stays, with the frameDuration it closed over.
SetFpsStaleClosure(f) ==
    /\ mounted
    /\ f # fps
    /\ fps' = f
    /\ ev' = Ev("setFps", f, FALSE, 0, FALSE)
    /\ IF f > 0
       THEN armedAt' = now /\ resetBy' = "rate"
       ELSE UNCHANGED <<armedAt, resetBy>>
    /\ UNCHANGED <<store, sprites, currentFrame, isPlaying, loop, interpolate,
                   lastTime, spriteReady, now, rafPending, animate>>

\* onFpsChange = setFps: preset button or number field.  fps is a
\* dependency of the animation effect: its cleanup cancels the scheduled
\* callback and the new run schedules one closing over the new fps.
SetFps(f) ==
    /\ mounted
    /\ f # fps
    /\ fps' = f
    /\ rafPending' = EffectSchedules(isPlaying)
    /\ animate' = Closure(f, loop, interpolate)
    /\ ev' = Ev("setFps", f, FALSE, 0, FALSE)
    /\ IF f > 0
       THEN armedAt' = now /\ resetBy' = "rate"
       ELSE UNCHANGED <<armedAt, resetBy>>
    /\ UNCHANGED <<store, sprites, currentFrame, isPlaying, loop, interpolate,
                   lastTime, spriteReady, now>>

handleFrameChangeKeepClock(frame) ==
    /\ mounted
    /\ currentFrame' = frame
    /\ lastTime' = lastTime
    /\ ev' = Ev("seek", frame, FALSE, now, ev.op = "seek" /\ ev.arg = frame)
    /\ IF frame \in 0..(totalFrames - 1)
       THEN armedAt' = Unarmed /\ resetBy' = "seek"
       ELSE UNCHANGED <<armedAt, resetBy>>
    /\ UNCHANGED <<store, spriteAlpha, nextVisible, isPlaying, loop, fps, interpolate,
                   spriteReady, rafPending, animate, now>>
    /\ FrameChangeEffect(frame, interpolate, nextAlpha)

handleFrameChangeRelative(frame) ==
    /\ mounted
    /\ currentFrame' = (currentFrame + frame) % totalFrames
    /\ lastTime' = 0
    /\ ev' = Ev("seek", frame, FALSE, now, ev.op = "seek" /\ ev.arg = frame)
    /\ IF frame \in 0..(totalFrames - 1)
       THEN armedAt' = Unarmed /\ resetBy' = "seek"
       ELSE UNCHANGED <<armedAt, resetBy>>
    /\ UNCHANGED <<store, spriteAlpha, nextVisible, isPlaying, loop, fps, interpolate,
                   spriteReady, rafPending, animate, now>>
    /\ FrameChangeEffect((currentFrame + frame) % totalFrames, interpolate, nextAlpha)

\* handleFrameChange: setCurrentFrame(frame); lastTimeRef.current = 0.
\* currentFrame is no dependency of the animation effect.
handleFrameChange(frame) ==
    /\ mounted
    /\ currentFrame' = frame
    /\ lastTime' = 0
    /\ ev' = Ev("seek", frame, FALSE, now, ev.op = "seek" /\ ev.arg = frame)
    /\ IF frame \in 0..(totalFrames - 1)
       THEN armedAt' = Unarmed /\ resetBy' = "seek"
       ELSE UNCHANGED <<armedAt, resetBy>>
    /\ UNCHANGED <<store, spriteAlpha, nextVisible, isPlaying, loop, fps, interpolate,
                   spriteReady, rafPending, animate, now>>
    /\ FrameChangeEffect(frame, interpolate, nextAlpha)

\* The frame slider: min 0 (default), max totalFrames - 1, step 1.
SliderSeek == \E k \in 0..(totalFrames - 1) : handleFrameChange(k)

\* handleFrameChange called with any number, the slider's bounds aside.
DirectSeek == \E k \in (-1)..totalFrames : handleFrameChange(k)

\* ArrowRight
StepForwardKey ==
    /\ mounted
    /\ currentFrame' = StepForward(currentFrame, totalFrames)
    /\ ev' = Ev("stepF", currentFrame, FALSE, now, FALSE)
    /\ UNCHANGED <<store, spriteAlpha, nextVisible, isPlaying, loop, fps, interpolate, lastTime,
                   spriteReady, rafPending, animate, now, armedAt, resetBy>>
    /\ FrameChangeEffect(StepForward(currentFrame, totalFrames), interpolate, nextAlpha)

\* ArrowLeft
StepBackwardKey ==
    /\ mounted
    /\ currentFrame' = StepBackward(currentFrame, totalFrames)
    /\ ev' = Ev("stepB", currentFrame, FALSE, now, FALSE)
    /\ UNCHANGED <<store, spriteAlpha, nextVisible, isPlaying, loop, fps, interpolate, lastTime,
                   spriteReady, rafPending, animate, now, armedAt, resetBy>>
    /\ FrameChangeEffect(StepBackward(currentFrame, totalFrames), interpolate, nextAlpha)

\* One run of the requestAnimationFrame callback `animate` at timestamp
\* `now`: it composes the overlay at `progress` (or hides it), and when the
\* frame is due queues the state updates; the step includes the effect
\* re-runs those cause: the animation effect on a change of isPlaying, the
\* frame change effect on a change of currentFrame.
Tick ==
    /\ rafPending
    /\ now < MaxTime
    /\ LET t == now
           lt == IF lastTime = 0 THEN t ELSE lastTime
           elapsed == t - lt
           due == AdvanceDue(elapsed * TimeUnit, animate.fps)
           nxt == AdvanceFrame(currentFrame, totalFrames, animate.loop)
           blend == animate.interpolate /\ totalFrames > 1
           progress == Progress(elapsed * TimeUnit, animate.fps)
       IN  /\ spriteAlpha' = Opaque
           /\ nextVisible' = IF spriteReady
                              THEN blend /\ progress > VisibleAbove
                              ELSE nextVisible
           /\ FrameChangeEffect(IF due THEN nxt.frame ELSE currentFrame,
                                interpolate,
                                IF ~spriteReady THEN nextAlpha
                                ELSE IF blend THEN progress ELSE 0)
           /\ lastTime' = IF due THEN ClockAfterAdvance(t, lt, animate.fps)
                                 ELSE lt
           /\ currentFrame' = IF due THEN nxt.frame ELSE currentFrame
           /\ isPlaying' = IF due THEN nxt.playing ELSE isPlaying
           /\ rafPending' = IF due THEN EffectSchedules(nxt.playing) ELSE TRUE
           /\ ev' = Ev("tick", t, due, elapsed, FALSE)
           /\ IF due
              THEN armedAt' = t /\ resetBy' = "advance"
              ELSE /\ armedAt' = IF armedAt = Unarmed THEN t ELSE armedAt
                   /\ resetBy' = resetBy
    /\ now' = now + 1
    /\ UNCHANGED <<store, loop, fps, interpolate, spriteReady, animate>>

Next ==
    \/ LoadDone
    \/ Elapse
    \/ TogglePlay
    \/ SetLoop
    \/ SetInterpolate
    \/ \E f \in FpsChoices : SetFps(f)
    \/ SliderSeek
    \/ StepForwardKey
    \/ StepBackwardKey
    \/ Tick

Spec == Init /\ [][Next]_vars

\* The same component with handleFrameChange reachable by any caller, not
\* only through the slider's bounds.
NextDirect ==
    \/ LoadDone
    \/ Elapse
    \/ TogglePlay
    \/ SetLoop
    \/ SetInterpolate
    \/ \E f \in FpsChoices : SetFps(f)
    \/ DirectSeek
    \/ StepForwardKey
    \/ StepBackwardKey
    \/ Tick

SpecDirect == Init /\ [][NextDirect]_vars

\* The component driven with positive frame rates only.
NextValidRates ==
    \/ LoadDone
    \/ Elapse
    \/ TogglePlay
    \/ SetLoop
    \/ SetInterpolate
    \/ \E f \in {g \in FpsChoices : g > 0} : SetFps(f)
    \/ SliderSeek
    \/ StepForwardKey
    \/ StepBackwardKey
    \/ Tick

SpecValidRates == Init /\ [][NextValidRates]_vars

\* Hands-off playback: the user sets the viewer up until SetupTime and
\* then leaves it alone; from then on every step is an animation frame.
\* The browser runs a requested animation-frame callback at the next frame,
\* hence weak fairness on Tick.
SetupStep ==
    /\ now < SetupTime
    /\ \/ LoadDone
       \/ Elapse
       \/ TogglePlay
       \/ SetLoop
       \/ SetInterpolate
       \/ \E f \in {g \in FpsChoices : g > 0} : SetFps(f)
       \/ SliderSeek
       \/ StepForwardKey
       \/ StepBackwardKey

NextAuto ==
    \/ SetupStep
    \/ Tick

SpecAuto == Init /\ [][NextAuto]_vars /\ WF_vars(Tick)

\* Selecting files in any order, and going back.
NextSort ==
    \/ SelectAnyFiles
    \/ Reset

SpecSort == InitLanding /\ [][NextSort]_vars

\* The whole life of one selection: the files or the atlas are chosen, the
\* viewer loads them image by image, the user plays, steps, switches
\* interpolation and goes back at any point of the load.
NextLoad ==
    \/ SelectSomeFiles
    \/ SelectAtlas
    \/ AppInitDone
    \/ \E ok \in BOOLEAN : ImageSettled(ok)
    \/ Reset
    \/ TogglePlay
    \/ SetInterpolate
    \/ StepForwardKey
    \/ Tick

SpecLoad == InitLanding /\ [][NextLoad]_vars

\* processFiles on a selection without manifest holding n image files:
\* onFolderSelect(imageFiles) if there are any, an error otherwise.
ProcessRegularFiles ==
    \E n \in 0..MaxFrames :
       IF n > 0
       THEN SelectFiles(FirstNames(n))
       ELSE /\ ~mounted
            /\ pc = "none"
            /\ errToasts < MaxToasts
            /\ errToasts' = errToasts + 1
            /\ ev' = Ev("noImages", 0, FALSE, 0, FALSE)
            /\ UNCHANGED <<files, sortedFiles, totalFrames, mounted,
                           playback, lastTime, spriteReady, rafPending,
                           animate, now, loader, liveTextures, liveUrls,
                           destroyCalls, teardowns, tornDownAt, selection, pc2,
                           armedAt, resetBy>>
            /\ UNCHANGED sprites

\* processFiles on a manifest from which parseSpriteSheet got n frames,
\* its atlas found and every frame cropped: onFolderSelect(extractedFrames).
ProcessManifestFrames ==
    \E n \in 0..MaxFrames :
       SelectFiles(ExtractFramesFromAtlas(n, {}).files)

\* Every way of handing files to processFiles (the pickers and the drop
\* call it only with files), and the viewer's load that follows.
NextInputs ==
    \/ ProcessRegularFiles
    \/ ProcessManifestFrames
    \/ AppInitDone
    \/ \E ok \in BOOLEAN : ImageSettled(ok)
    \/ Reset
    \/ TogglePlay
    \/ StepForwardKey
    \/ Tick

SpecInputs == InitLanding /\ [][NextInputs]_vars

\* The selection holds a manifest whose atlas is looked up among its
\* files; the viewer, if opened, loads the frames and may be left.
NextAtlas ==
    \/ ProcessManifest
    \/ AppInitDone
    \/ \E ok \in BOOLEAN : ImageSettled(ok)
    \/ Reset

SpecAtlas == InitLanding /\ [][NextAtlas]_vars

\* The init effect's cleanup run while the viewer stays mounted
\* (canvasRef.current remains the container) and the first initPixi is
\* still awaiting app.init or an image.
EffectCleanup ==
    /\ mounted
    /\ pc \in {"appInit", "decode"}
    /\ pc2 = "none"
    /\ hasInitialized
    /\ Cleanup
    /\ ev' = Ev("cleanup", 0, FALSE, 0, FALSE)
    /\ UNCHANGED <<files, sortedFiles, totalFrames, mounted, playback,
                   lastTime, spriteReady, now, pc, idx, appRefSet,
                   locTextures, locUrls, errToasts, selection, pc2,
                   armedAt, resetBy>>
    /\ UNCHANGED sprites

\* The init effect run again: the cleanup has set hasInitializedRef back
\* to false, so the guard lets it through and a second initPixi makes its
\* Application and awaits app.init.
InitEffectAgain ==
    /\ mounted
    /\ ~hasInitialized
    /\ pc2 = "none"
    /\ hasInitialized' = TRUE
    /\ pc2' = "appInit"
    /\ ev' = Ev("initAgain", 0, FALSE, 0, FALSE)
    /\ UNCHANGED <<files, sortedFiles, totalFrames, mounted, playback,
                   lastTime, spriteReady, rafPending, animate, now, pc, idx,
                   app, appRefSet, locTextures, locUrls, refTextures,
                   refUrls, liveTextures, liveUrls, destroyCalls, errToasts,
                   teardowns, tornDownAt, selection, armedAt, resetBy>>
    /\ UNCHANGED sprites

\* app.init of the second initPixi has resolved: the container is there,
\* its canvas is appended and appRef set to its Application.
SecondAppInitDone ==
    /\ mounted
    /\ pc2 = "appInit"
    /\ pc2' = "decode"
    /\ appRefSet' = TRUE
    /\ ev' = Ev("appInit2", 0, FALSE, 0, FALSE)
    /\ UNCHANGED <<files, sortedFiles, totalFrames, mounted, playback,
                   lastTime, spriteReady, rafPending, animate, now,
                   hasInitialized, pc, idx, app, locTextures, locUrls,
                   refTextures, refUrls, liveTextures, liveUrls,
                   destroyCalls, errToasts, teardowns, tornDownAt,
                   selection, armedAt, resetBy>>
    /\ UNCHANGED sprites

\* The textures the second initPixi makes, told from the first one's.
SecondTextures == [i \in 1..totalFrames |-> totalFrames + i]

\* The rest of the second initPixi in one step, every file decoding: its
\* blob URLs and textures are made, texturesRef and blobUrlsRef are
\* overwritten with them and its sprites created on its stage.
SecondLoadDone ==
    /\ mounted
    /\ pc2 = "decode"
    /\ pc2' = "ready"
    /\ refTextures' = SecondTextures
    /\ refUrls' = totalFrames
    /\ liveTextures' = liveTextures \cup Range(SecondTextures)
    /\ liveUrls' = liveUrls + totalFrames
    /\ spriteReady' = TRUE
    /\ spriteAlpha' = Opaque
    /\ spriteTexture' = 0
    /\ nextTexture' = 0
    /\ nextAlpha' = 0
    /\ nextVisible' = FALSE
    /\ ev' = Ev("loaded2", 0, FALSE, 0, FALSE)
    /\ UNCHANGED <<files, sortedFiles, totalFrames, mounted, playback,
                   lastTime, rafPending, animate, now, hasInitialized, pc,
                   idx, app, appRefSet, locTextures, locUrls, destroyCalls,
                   errToasts, teardowns, tornDownAt, selection, armedAt,
                   resetBy>>

\* One viewer whose init effect runs, is cleaned up and runs again while
\* the first load is under way; both loads then go on.
NextRerun ==
    \/ SelectSomeFiles
    \/ AppInitDone
    \/ \E ok \in BOOLEAN : ImageSettled(ok)
    \/ EffectCleanup
    \/ InitEffectAgain
    \/ SecondAppInitDone
    \/ SecondLoadDone

SpecRerun == InitLanding /\ [][NextRerun]_vars

\* The same, with the cleanup function run a second time.
NextTeardownTwice ==
    \/ NextLoad
    \/ TeardownAgain

SpecTeardownTwice == InitLanding /\ [][NextTeardownTwice]_vars

\* ------------------------------------------------------------ properties
\* The step is a run of handler `op` (Elapse leaves ev alone).
Did(op) == ev' # ev /\ ev'.op = op

\* The specified clock, armed at `armedAt`, has a full frame duration at
\* timestamp t.
DueSinceArmed(t) ==
    armedAt # Unarmed /\ (t - armedAt) * TimeUnit * fps >= MsPerSecond

InRange(i) == 0 <= i /\ i < totalFrames

\* C1: with totalFrames >= 1, every state reachable by play/pause, slider
\* seek, keyboard steps, loop toggle, frame-rate change, interpolation
\* toggle and animation ticks has 0 <= currentFrame < totalFrames.
C1_FrameIndexInRange == totalFrames >= 1 => InRange(currentFrame)

C1_Witness ==
    /\ totalFrames > 1
    /\ ev.op = "tick" /\ ev.adv
    /\ loop /\ isPlaying
    /\ currentFrame = 0

\* C2: an advance goes to (currentFrame + 1) mod totalFrames and keeps
\* playing when loop is on; with loop off it pauses and keeps the index at
\* the last frame, and otherwise increases the index by exactly one.
C2_AdvanceRule ==
    [][ (Did("tick") /\ ev'.adv) =>
          IF loop
          THEN /\ currentFrame' = (currentFrame + 1) % totalFrames
               /\ isPlaying' = TRUE
          ELSE IF currentFrame = totalFrames - 1
               THEN isPlaying' = FALSE /\ currentFrame' = currentFrame
               ELSE currentFrame' = currentFrame + 1 /\ isPlaying' = TRUE
      ]_vars

C2_Witness ==
    /\ totalFrames > 1
    /\ ev.op = "tick" /\ ev.adv
    /\ ~loop /\ ~isPlaying
    /\ currentFrame = totalFrames - 1

\* C3: after play, the advance fires at the first tick whose timestamp is
\* at least frameDuration after the first tick's timestamp, also when that
\* first timestamp is 0: a tick at which the interval measured from the
\* first tick is complete takes the advance branch.
C3_AdvanceWhenDue ==
    [][ (Did("tick") /\ fps > 0 /\ resetBy = "play" /\ DueSinceArmed(now))
          => ev'.adv ]_vars

\* C4: no tick runs while paused, and the first tick after play only
\* establishes the tick timestamp: it never advances.
C4_NoAdvanceOnResume ==
    [][ /\ (~isPlaying => ~Did("tick"))
        /\ (Did("tick") /\ fps > 0 /\ resetBy = "play" /\ armedAt = Unarmed)
             => ~ev'.adv
      ]_vars

\* C5: a change to a positive frame rate sets fps, leaves isPlaying,
\* currentFrame and loop alone, and restarts the interval: the next advance
\* needs a full new frameDuration measured from the change.
C5_RateChangeRestartsInterval ==
    [][ /\ (Did("setFps") /\ ev'.arg > 0)
             => /\ fps' = ev'.arg
                /\ UNCHANGED <<isPlaying, currentFrame, loop>>
        /\ (Did("tick") /\ ev'.adv /\ fps > 0 /\ resetBy = "rate")
             => DueSinceArmed(now)
      ]_vars

\* C6: a non-positive frame rate is rejected and changes nothing, so
\* fps > 0 in every reachable state.
C6_NonPositiveRateRejected ==
    [][ /\ (Did("setFps") /\ ev'.arg <= 0) => UNCHANGED playback
        /\ fps' > 0
      ]_vars

\* C7: a seek to an index outside 0..totalFrames-1 changes nothing.
C7_OutOfRangeSeekRejected ==
    [][ (Did("seek") /\ ~InRange(ev'.arg))
          => UNCHANGED <<currentFrame, isPlaying, loop, fps, lastTime>>
      ]_vars

\* C8: a seek to k in range sets currentFrame to k and leaves isPlaying,
\* loop and fps alone, and the first tick after it counts zero elapsed time.
C8_SeekEffect ==
    [][ /\ (Did("seek") /\ InRange(ev'.arg))
             => /\ currentFrame' = ev'.arg
                /\ UNCHANGED <<isPlaying, loop, fps>>
        /\ (Did("tick") /\ resetBy = "seek" /\ armedAt = Unarmed)
             => ev'.el = 0
      ]_vars

C8_Witness ==
    /\ ev.op = "tick" /\ ev.el = 0 /\ ev.arg > 1
    /\ resetBy = "seek" /\ armedAt = ev.arg
    /\ currentFrame > 0
    /\ isPlaying

\* C9: seek(k) directly after seek(k) leaves currentFrame, isPlaying and the
\* clock as the first seek(k) left them.
C9_SeekIdempotent ==
    [][ (Did("seek") /\ ev'.rep)
          => UNCHANGED <<currentFrame, isPlaying, lastTime, rafPending,
                         armedAt, resetBy>>
      ]_vars

C9_Witness ==
    /\ ev.op = "seek" /\ ev.rep
    /\ ev.arg > 0 /\ currentFrame = ev.arg
    /\ isPlaying /\ rafPending
    /\ now > 1

\* C10: ArrowRight goes from the last index to 0 and otherwise one up,
\* ArrowLeft from 0 to the last index and otherwise one down, whatever loop
\* is; neither changes isPlaying, loop or fps; ArrowLeft directly after
\* ArrowRight returns to the index before the two.
C10_ManualStepWraps ==
    [][ /\ Did("stepF")
             => /\ currentFrame' = IF currentFrame = totalFrames - 1
                                   THEN 0 ELSE currentFrame + 1
                /\ UNCHANGED <<isPlaying, loop, fps>>
        /\ Did("stepB")
             => /\ currentFrame' = IF currentFrame = 0
                                   THEN totalFrames - 1 ELSE currentFrame - 1
                /\ UNCHANGED <<isPlaying, loop, fps>>
        /\ (ev.op = "stepF" /\ Did("stepB")) => currentFrame' = ev.arg
      ]_vars

C10_Witness ==
    /\ totalFrames > 1
    /\ ev.op = "stepB" /\ ev.arg = 0
    /\ currentFrame = totalFrames - 1
    /\ ~loop

\* C12: play/pause only toggles isPlaying: currentFrame, loop, fps and
\* interpolate stay as they are, and a second toggle directly after a first
\* gives isPlaying the value it had before the first.
C12_PlayPauseOnlyToggles ==
    [][ Did("playPause")
          => /\ isPlaying' = ~isPlaying
             /\ UNCHANGED <<currentFrame, loop, fps, interpolate>>
             /\ (ev.op = "playPause" => isPlaying' = (ev.arg = 1))
      ]_vars

C12_Witness ==
    /\ ev.op = "playPause" /\ ev.rep
    /\ isPlaying = (ev.arg # 1)
    /\ currentFrame > 0 /\ ~loop /\ fps # InitialFps /\ interpolate

\* C13: the loop checkbox changes only the loop flag: lastTime, the
\* specified clock, currentFrame, isPlaying and fps stay as they are, and
\* a scheduled tick stays scheduled, so the next advance comes when it
\* would have come.
C13_SetLoopPure ==
    [][ Did("setLoop")
          => /\ loop' = ~loop
             /\ UNCHANGED <<lastTime, armedAt, resetBy, currentFrame,
                            isPlaying, fps, now>>
             /\ (rafPending => rafPending')
      ]_vars

\* The loop flag changed between a tick that started an interval and the
\* tick that completes it.
C13_Witness ==
    /\ ev.op = "setLoop"
    /\ isPlaying /\ rafPending
    /\ fps = 10 /\ lastTime > 0
    /\ ~AdvanceDue((now - lastTime) * TimeUnit, fps)

\* Number of time units a frame lasts at frame rate f > 0.
FrameUnits(f) == (MsPerSecond + TimeUnit * f - 1) \div (TimeUnit * f)

\* The time left before MaxTime suffices for the advances from currentFrame
\* to the last frame and the one that pauses there.
EnoughTime ==
    now + (totalFrames - currentFrame) * FrameUnits(fps) <= MaxTime - 1

\* C11: with loop off, fps > 0, playback running, ticks arriving and no
\* user command, playback eventually is paused at the last frame; a tick
\* pauses only there, and no tick runs once paused, so the automatic pause
\* happens once and the state stays until a user command.
C11_RunsToLastFrameAndPauses ==
    /\ ( /\ now >= SetupTime
         /\ isPlaying /\ rafPending /\ ~loop /\ fps > 0
         /\ EnoughTime )
          ~> (~isPlaying /\ currentFrame = totalFrames - 1)
    /\ [][ /\ (Did("tick") /\ ~isPlaying')
                 => /\ ~loop /\ currentFrame' = totalFrames - 1
                    /\ ~rafPending'
           /\ (~isPlaying => ~Did("tick"))
         ]_vars

C11_Witness ==
    /\ totalFrames > 1
    /\ ev.op = "tick" /\ ev.adv /\ ev.arg > SetupTime
    /\ ~isPlaying /\ ~rafPending /\ ~loop
    /\ currentFrame = totalFrames - 1

IsDigit(c) == c \in 48..57

\* Length of the digit run a name starts with.
DigitRun(a) ==
    LET stop == {i \in 1..(Len(a) + 1) : i = Len(a) + 1 \/ ~IsDigit(a[i])}
    IN  (CHOOSE i \in stop : \A m \in stop : i <= m) - 1

\* The integer a digit sequence denotes.
DigitsValue(d) ==
    LET v[k \in 0..Len(d)] ==
            IF k = 0 THEN 0 ELSE 10 * v[k - 1] + (d[k] - 48)
    IN  v[Len(d)]

\* Numeric-aware comparison: digit runs compare as integers, everything
\* else character by character; names equal in that way compare as
\* strings.
RECURSIVE NaturalCompare(_, _)
NaturalCompare(a, b) ==
    IF a = <<>> \/ b = <<>> THEN Sign(Len(a) - Len(b))
    ELSE IF IsDigit(a[1]) /\ IsDigit(b[1])
    THEN LET ra == DigitRun(a)
             rb == DigitRun(b)
             na == DigitsValue(SubSeq(a, 1, ra))
             nb == DigitsValue(SubSeq(b, 1, rb))
         IN  IF na # nb THEN Sign(na - nb)
             ELSE NaturalCompare(SubSeq(a, ra + 1, Len(a)),
                                 SubSeq(b, rb + 1, Len(b)))
    ELSE IF a[1] # b[1] THEN Sign(a[1] - b[1])
    ELSE NaturalCompare(Tail(a), Tail(b))

NaturalBefore(a, b) ==
    \/ NaturalCompare(a, b) < 0
    \/ NaturalCompare(a, b) = 0 /\ LocaleCompare(a, b) < 0

\* C15: the viewer's frames are in numeric-aware name order (f2. before
\* f10.); the order being strict, it is the same for every order in which
\* the same files are supplied.
C15_NumericAwareOrder ==
    mounted =>
        \A i, j \in 1..Len(sortedFiles) :
            i < j => NaturalBefore(sortedFiles[i], sortedFiles[j])

\* initPixi has run to its end.
LoadEnded == pc \in {"ready", "empty", "returned", "threw"}

\* C14: after a load that has put at least one texture in the store, the
\* frame count the transport uses is the number of textures held, and the
\* current index has a texture.
C14_FrameCountIsDecodedCount ==
    (mounted /\ pc = "ready")
        => /\ totalFrames = Len(refTextures)
           /\ currentFrame + 1 \in DOMAIN refTextures

\* C16: a frame that fails to decode is skipped and the load goes on; the
\* textures are kept in file order; the load reports that nothing loaded
\* only with no texture at all; an atlas of which some frame can be
\* cropped opens the viewer on the frames that could.
C16_FrameFailureRecoveredLocally ==
    [][ /\ (Did("decode") /\ ~ev'.adv)
             => /\ locTextures' = locTextures
                /\ pc' \in {"decode", "ready", "empty", "threw"}
        /\ (Did("decode") /\ ev'.adv)
             => /\ locTextures' = Append(locTextures, idx)
                /\ \A i \in 1..Len(locTextures) : locTextures[i] < idx
        /\ (Did("decode") /\ pc' = "empty") => locTextures' = <<>>
        /\ (Did("atlas") /\ ev'.el > 0)
             => mounted' /\ totalFrames' = ev'.el
      ]_vars

\* C17: when the load ends with no texture, the user gets one error
\* notification and the system is back on the landing page with nothing
\* of the viewer left: no Application, no blob URL.
C17_EmptyLoadReturnsToLanding ==
    [][ (Did("decode") /\ mounted /\ pc' = "empty")
          => /\ errToasts' = errToasts + 1
             /\ ~mounted'
             /\ app' # "live"
             /\ liveUrls' = 0
      ]_vars

\* C18: once the viewer has been reset, every texture the load created
\* is destroyed, every blob URL it created is revoked, and no animation
\* callback is scheduled.
C18_ResetReleasesEverything ==
    (~mounted /\ teardowns >= 1)
        => /\ liveTextures = {}
           /\ liveUrls = 0
           /\ ~rafPending

\* C19: when the viewer was torn down while initPixi was awaiting
\* app.init or an image, then once initPixi has ended no texture, blob
\* URL or Application of that load is left unreleased or referenced.
C19_NoLeakAfterTeardownInFlight ==
    (tornDownAt \in {"appInit", "decode"} /\ LoadEnded)
        => /\ liveTextures = {}
           /\ liveUrls = 0
           /\ app # "live"
           /\ refTextures = <<>>
           /\ refUrls = 0

\* C20: a second run of the teardown, the first having run with the load
\* at its end, releases nothing again and reports nothing.
C20_TeardownIdempotent ==
    [][ (Did("teardown") /\ tornDownAt \in {"ready", "empty"})
          => UNCHANGED <<app, destroyCalls, liveTextures, liveUrls,
                         refTextures, refUrls, errToasts, rafPending>>
      ]_vars

\* The opacity at which the overlay is on screen: that of a visible overlay
\* sprite holding a texture of the store.
OverlayOpacity ==
    IF nextVisible /\ nextTexture # NoTexture THEN nextAlpha ELSE 0

\* C21: the base sprite is fully opaque in every state, and with
\* interpolation off or totalFrames <= 1 the overlay is not on screen.
C21_BaseOpaqueNoOverlayWhenOff ==
    /\ spriteAlpha = Opaque
    /\ (~interpolate \/ totalFrames <= 1) => OverlayOpacity = 0

\* Interpolation takes part in a tick: it is enabled, there is more than
\* one frame and the sprites exist.
Blending == interpolate /\ totalFrames > 1 /\ spriteReady

\* C22: after every tick with interpolation enabled and totalFrames > 1 the
\* overlay holds the frame (currentFrame + 1) mod totalFrames at opacity
\* clamp(time since the frame started / frameDuration, 0, 1), which lies in
\* [0, 1], and it is on screen exactly when that opacity is above 0.01.
C22_OverlayAtTick ==
    [][(Did("tick") /\ Blending) =>
          /\ nextTexture' = (currentFrame' + 1) % totalFrames
          /\ nextAlpha' = Progress((ev'.arg - armedAt') * TimeUnit, fps)
          /\ nextAlpha' \in 0..Opaque
          /\ (nextVisible' /\ nextAlpha' > 0) <=> (nextAlpha' > VisibleAbove)
      ]_vars

\* C23: with interpolation enabled and totalFrames > 1, a tick that changes
\* the index leaves the overlay on screen at opacity 0, and of two
\* consecutive ticks on the same index the later never shows a lower
\* opacity.
C23_OpacityRisesWithinFrame ==
    [][(Did("tick") /\ Blending) =>
          /\ currentFrame' # currentFrame => OverlayOpacity' = 0
          /\ (ev.op = "tick" /\ currentFrame' = currentFrame)
                => OverlayOpacity' >= OverlayOpacity
      ]_vars

\* C24: with interpolation in effect, every change of currentFrame leaves
\* the overlay holding the frame after the new index at opacity 0, and the
\* tick that follows a seek or a key step onto another index shows no more
\* than the opacity earned since that change.
C24_IndexChangeRestartsOverlay ==
    [][/\ (currentFrame' # currentFrame /\ Blending)
            => /\ nextTexture' = (currentFrame' + 1) % totalFrames
               /\ nextAlpha' = 0
       /\ ( /\ Did("tick") /\ Blending /\ currentFrame' = currentFrame
            /\ \/ ev.op = "seek"
               \/ ev.op \in {"stepF", "stepB"} /\ ev.arg # currentFrame )
            => nextAlpha' <= Progress((ev'.arg - ev.el) * TimeUnit, fps)
      ]_vars

\* C25: every tick is evaluated with the frame duration, loop flag and
\* interpolation flag in force when it runs (the scheduled callback closes
\* over the current ones), it advances from the current index, and a tick
\* that follows a seek counts from the seek and advances from its target.
C25_NoStaleTick ==
    [][Did("tick") =>
          /\ animate = Closure(fps, loop, interpolate)
          /\ ev'.adv <=> AdvanceDue(ev'.el * TimeUnit, fps)
          /\ ev'.adv =>
                /\ currentFrame' =
                      AdvanceFrame(currentFrame, totalFrames, loop).frame
                /\ isPlaying' =
                      AdvanceFrame(currentFrame, totalFrames, loop).playing
          /\ ev.op = "seek" =>
                /\ ev'.el = 0
                /\ currentFrame = ev.arg
      ]_vars

\* A tick after a change from 24 to 10 fps: 50 ms, a full frame at 24 fps,
\* did not advance.
C25_Witness ==
    /\ ev.op = "tick" /\ ~ev.adv /\ ev.el = 1
    /\ fps = 10 /\ resetBy = "rate" /\ isPlaying

\* C26 as stated: a tick that finds the accumulated time >= frameDuration
\* emits one advance and subtracts exactly frameDuration from the
\* accumulator, the remainder being carried over (accumulated time in
\* ms * fps, one frameDuration being MsPerSecond).
C26_CarryOver ==
    [][(Did("tick") /\ ev'.adv /\ fps > 0) =>
          /\ currentFrame' =
                AdvanceFrame(currentFrame, totalFrames, loop).frame
          /\ (ev'.arg - lastTime') * TimeUnit * fps
                = ev'.el * TimeUnit * fps - MsPerSecond
      ]_vars

\* C26 amended: such a tick emits exactly one advance, however long the
\* elapsed time, and resets the accumulator to zero: the next elapsed time
\* is counted from this tick's timestamp.
C26_OneAdvanceClockReset ==
    [][(Did("tick") /\ ev'.adv) =>
          /\ IF currentFrame + 1 < totalFrames
             THEN currentFrame' = currentFrame + 1
             ELSE currentFrame' = IF loop THEN 0 ELSE currentFrame
          /\ lastTime' = ev'.arg
      ]_vars

\* An advance at 24 fps after 100 ms, more than two frame durations.
C26_Witness ==
    /\ ev.op = "tick" /\ ev.adv /\ ev.el = 2
    /\ fps = 24 /\ lastTime = ev.arg /\ currentFrame = 1

\* processFiles ran on a selection with a manifest.
Processed ==
    /\ ev'.op \in {"atlas", "atlasMissing"}
    /\ errToasts' # errToasts \/ mounted' # mounted

\* What the manifest's image may resolve to: a file of the same base name,
\* letter case aside, with the same extension, or both extensions being
\* supported ones.
Resolvable(f, image) ==
    /\ f.stem = image.stem
    /\ \/ f.ext = image.ext
       \/ f.ext \in SupportedExt /\ image.ext \in SupportedExt

AnyResolvable(sel) ==
    \E i \in 1..Len(sel.supplied) : Resolvable(sel.supplied[i], sel.image)

\* C27: whenever the selection holds a file whose name is the manifest's
\* meta.image up to letter case, or one of the same base name with a
\* supported extension, the atlas is resolved, to such a file.
C27_AtlasResolution ==
    [][(Processed /\ AnyResolvable(selection')) =>
          /\ ev'.op = "atlas"
          /\ selection'.found # 0
          /\ Resolvable(selection'.supplied[selection'.found],
                        selection'.image)
      ]_vars

\* The manifest names s.PNG and the viewer opened on the frames of s.png.
C27_Witness ==
    /\ ev.op = "atlas" /\ mounted
    /\ selection.image.name = <<115, 46, 80, 78, 71>>
    /\ selection.found # 0
    /\ selection.supplied[selection.found].name = <<115, 46, 112, 110, 103>>

\* C28: when no file of the selection is the manifest's atlas image, the
\* attempt shows one error and nothing else: the viewer is not opened, no
\* files are handed over and the landing page stays ready for a selection.
C28_MissingAtlasFailsWhole ==
    [][(Processed /\ ~AnyResolvable(selection')) =>
          /\ ev'.op = "atlasMissing"
          /\ errToasts' = errToasts + 1
          /\ ~mounted' /\ pc' = "none"
          /\ UNCHANGED <<files, sortedFiles, totalFrames, loader, sprites,
                         playback>>
      ]_vars

\* A second failed attempt, the selection holding another image (t.png).
C28_Witness ==
    /\ ev.op = "atlasMissing" /\ errToasts = 2
    /\ ~mounted /\ pc = "none" /\ files = <<>>
    /\ selection.found = 0
    /\ \E i \in 1..Len(selection.supplied) :
          selection.supplied[i].name = <<116, 46, 112, 110, 103>>

\* C29: whenever playback is paused, by the user or by the tick that ends
\* a run at the last frame with loop off, the overlay is on screen at
\* opacity 0.
C29_NoOverlayWhenIdle ==
    ~isPlaying => OverlayOpacity = 0

\* ------------------------------------------------- sortFramesByName
\* Manifest frame names as character codes: a10 b b2 a2 c1 c b10.
FrameNamePool ==
    { <<97, 49, 48>>, <<98>>, <<98, 50>>, <<97, 50>>, <<99, 49>>, <<99>>,
      <<98, 49, 48>> }

\* The frame lists of a manifest: 1..MaxFrames distinct names in any order.
FrameLists ==
    UNION {{fr \in [1..n -> FrameNamePool] :
               \A i, j \in 1..n : i # j => fr[i] # fr[j]} : n \in 1..MaxFrames}

HasDigits(name) == \E i \in 1..Len(name) : IsDigit(name[i])

\* parseInt(name.match(/(\d+)/)[1]): the value of the first digit run.
FrameNumber(name) ==
    LET first == CHOOSE i \in 1..Len(name) :
                    /\ IsDigit(name[i])
                    /\ \A j \in 1..(i - 1) : ~IsDigit(name[j])
        rest == SubSeq(name, first, Len(name))
    IN  DigitsValue(SubSeq(rest, 1, DigitRun(rest)))

\* The comparator of sortFramesByName, as the sign of what it returns.
FrameCompare(a, b) ==
    IF HasDigits(a) /\ HasDigits(b) /\ FrameNumber(a) # FrameNumber(b)
    THEN Sign(FrameNumber(a) - FrameNumber(b))
    ELSE LocaleCompare(a, b)

\* frames.sort(comparator) as a stable insertion sort.  With a comparator
\* that is no ordering the result of Array.prototype.sort is left to the
\* engine's algorithm; this is one of them.
InsertFrame(t, x) ==
    LET ok == {j \in 0..Len(t) :
                  \A i \in (j + 1)..Len(t) : FrameCompare(t[i], x) > 0}
        pos == CHOOSE j \in ok : \A m \in ok : j <= m
    IN  SubSeq(t, 1, pos) \o <<x>> \o SubSeq(t, pos + 1, Len(t))

SortFramesByName(fr) ==
    LET f[k \in 0..Len(fr)] ==
            IF k = 0 THEN <<>> ELSE InsertFrame(f[k - 1], fr[k])
    IN  f[Len(fr)]

\* extractFramesFromAtlas names each file frame.name + '.png'.
ExtractedFiles(fr) ==
    [i \in 1..Len(fr) |-> fr[i] \o <<46, 112, 110, 103>>]

\* The frame names of extracted files.
FrameNamesOf(fs) ==
    [i \in 1..Len(fs) |-> SubSeq(fs[i], 1, Len(fs[i]) - 4)]

\* processFiles on a manifest with the frames fr, the atlas found and every
\* frame cropped: the files go to onFolderSelect in sortFramesByName order.
SelectAtlasFrames ==
    \E fr \in FrameLists : SelectFiles(ExtractedFiles(SortFramesByName(fr)))

\* Selecting a manifest with its frames in any order, and going back.
NextFrames ==
    \/ SelectAtlasFrames
    \/ Reset

SpecFrames == InitLanding /\ [][NextFrames]_vars

\* The orders in which the names of a list can be supplied.
Orders(fr) ==
    {p \in [1..Len(fr) -> Range(fr)] :
        \A i, j \in 1..Len(fr) : i # j => p[i] # p[j]}

\* C30: over the frame names of any manifest the comparator is
\* antisymmetric and transitive, and the sorted list is the same in
\* whatever order the manifest lists the frames.
C30_ComparatorIsOrdering ==
    mounted =>
        LET fr == FrameNamesOf(files)
            names == Range(fr)
        IN  /\ \A a, b \in names : FrameCompare(a, b) = 0 - FrameCompare(b, a)
            /\ \A a, b, c \in names :
                  (FrameCompare(a, b) < 0 /\ FrameCompare(b, c) < 0)
                     => FrameCompare(a, c) < 0
            /\ \A p \in Orders(fr) : SortFramesByName(p) = fr

\* C31: for an atlas load the viewer plays the extracted files in the order
\* sortFramesByName gave them: its own sort leaves the list as handed over.
C31_ViewerKeepsAtlasOrder ==
    mounted => sortedFiles = files

\* C32: the viewer is open only on at least one file.
C32_ViewerNeverEmpty ==
    mounted => totalFrames >= 1

\* The canvases in the viewer's container: that of the first Application
\* once appended and until destroy(true) removes it, and that of the
\* second.
FirstCanvas ==
    app = "live" /\ pc \in {"decode", "ready", "empty", "threw"}

SecondCanvas == pc2 \in {"decode", "ready"}

Canvases ==
    (IF FirstCanvas THEN 1 ELSE 0) + (IF SecondCanvas THEN 1 ELSE 0)

\* The loads whose textures exist undestroyed.
TextureSets ==
    (IF liveTextures \cap (1..totalFrames) # {} THEN 1 ELSE 0)
      + (IF liveTextures \cap Range(SecondTextures) # {} THEN 1 ELSE 0)

\* C33: whatever the init effect's runs and cleanups, the viewer has at
\* most one canvas with its Application attached and at most one set of
\* textures.
C33_OneLiveLoad ==
    mounted => (Canvases <= 1 /\ TextureSets <= 1)
====
